---- MODULE Spec2Model ----
(***************************************************************************)
(* Model of FEM1.py: create_mesh (structured quadrilateral mesh over a     *)
(* rectangle), the Node / Element data holders and the Mesh constructor    *)
(* that resolves every element's corner coordinates.                       *)
(*                                                                         *)
(* Floats are modelled as exact rationals in lowest terms ([n, d], d > 0): *)
(* the inputs are integers, np.linspace's samples are k*stop/(num-1).      *)
(***************************************************************************)
EXTENDS Integers, Sequences, FiniteSets

\* ---------------------------------------------------------------- bounds
\* Largest / most negative value of length, height and mesh_size tried.
MaxDim == 5
MaxNeg == 1
\* Largest thickness tried (0 is the non-positive one).
MaxThick == 1

Dims == (0 - MaxNeg)..MaxDim
Thicknesses == 0..MaxThick

\* ------------------------------------------------------------- numbers
Abs(a) == IF a < 0 THEN 0 - a ELSE a

RECURSIVE Gcd(_, _)
Gcd(a, b) == IF b = 0 THEN a ELSE Gcd(b, a % b)

\* The float value n/d (d # 0), kept in lowest terms with a positive
\* denominator so that equal values are equal records.
Rat(n, d) ==
    LET g == Gcd(Abs(n), Abs(d))
        s == IF d < 0 THEN 0 - 1 ELSE 1
    IN  [n |-> (s * n) \div g, d |-> (s * d) \div g]

\* int(a / b) for b # 0: Python's int() truncates the quotient toward zero.
int_div(a, b) ==
    IF (a >= 0) = (b > 0)
    THEN Abs(a) \div Abs(b)
    ELSE 0 - (Abs(a) \div Abs(b))

\* Clamp without the clamp: a count of 0 stays 0.
ClampNone(num) == num

\* if num == 0: num = 1
Clamp(num) == IF num = 0 THEN 1 ELSE num

\* np.linspace(start, stop, num): num evenly spaced samples, both ends
\* included; no sample for num = 0, the start alone for num = 1.
linspace(start, stop, num) ==
    [k \in 1..num |->
        IF num = 1 THEN Rat(start, 1)
        ELSE Rat(start * (num - 1) + (k - 1) * (stop - start), num - 1)]

\* meshgrid_X under 'ij' indexing: Len(x) rows of Len(y) entries,
\* X[r][c] = x[r].
meshgrid_X_ij(x, y) == [r \in 1..Len(x) |-> [c \in 1..Len(y) |-> x[r]]]

\* np.meshgrid(x, y), 'xy' indexing: both grids have Len(y) rows of Len(x)
\* entries, X[r][c] = x[c] and Y[r][c] = y[r].
meshgrid_X(x, y) == [r \in 1..Len(y) |-> x]
meshgrid_Y(x, y) == [r \in 1..Len(y) |-> [c \in 1..Len(x) |-> y[r]]]

\* ndarray.ravel(): the rows one after the other.
RECURSIVE ravel(_)
ravel(M) == IF M = << >> THEN << >> ELSE Head(M) \o ravel(Tail(M))

\* zip(X, Y): pairs, as many as the shorter sequence has.
zip(X, Y) ==
    LET n == IF Len(X) < Len(Y) THEN Len(X) ELSE Len(Y)
    IN  [k \in 1..n |-> <<X[k], Y[k]>>]

\* ------------------------------------------------------- data holders
\* Element.xy before get_coordination ran.
None == << >>

Node(idx, x, y) == [id |-> idx, x |-> x, y |-> y]

Element(idx, nodes, thick) ==
    [id |-> idx, node |-> nodes, thickness |-> thick, xy |-> None]

\* End-of-row tests gone wrong: one that never fires, one that fires on the
\* first node of a row instead of the last.
IsRowEndNever(node_idx, num_mesh_len) == FALSE
IsRowEndOffByOne(node_idx, num_mesh_len) == node_idx % (num_mesh_len + 1) = 0

\* The end-of-row test of the element traversal.
IsRowEnd(node_idx, num_mesh_len) == (node_idx + 1) % (num_mesh_len + 1) = 0

\* Corner lists gone wrong: clockwise from the bottom-left, and with the row
\* above reached by a stride of num_mesh_len instead of num_mesh_len + 1.
node_idxs_Clockwise(node_idx, num_mesh_len) ==
    <<node_idx, node_idx + num_mesh_len + 1,
      node_idx + num_mesh_len + 2, node_idx + 1>>
node_idxs_ShortStride(node_idx, num_mesh_len) ==
    <<node_idx, node_idx + 1,
      node_idx + num_mesh_len + 1, node_idx + num_mesh_len>>

\* The four corners of the element whose bottom-left node is node_idx.
node_idxs(node_idx, num_mesh_len) ==
    <<node_idx, node_idx + 1,
      node_idx + num_mesh_len + 2, node_idx + num_mesh_len + 1>>

\* The row loop running once too often: range(num_mesh_hei + 1).
RowsLeftOneMore(i, num_mesh_hei) == i < num_mesh_hei + 1

\* Rows the element traversal still has to walk: for i in range(num_mesh_hei).
RowsLeft(i, num_mesh_hei) == i < num_mesh_hei

\* get_coordination gone wrong: an absent id skipped instead of raising
\* (nodes_dict.get), and the pair stored as (y, x).
get_coordination_Lenient(elm, nodes) ==
    [exc |-> "None",
     xy |-> [k \in 1..Len(elm.node) |->
               IF elm.node[k] \in DOMAIN nodes
               THEN <<nodes[elm.node[k]].x, nodes[elm.node[k]].y>>
               ELSE << >>]]
get_coordination_Swapped(elm, nodes) ==
    IF \E k \in 1..Len(elm.node) : elm.node[k] \notin DOMAIN nodes
    THEN [exc |-> "KeyError", xy |-> elm.xy]
    ELSE [exc |-> "None",
          xy |-> [k \in 1..Len(elm.node) |->
                    <<nodes[elm.node[k]].y, nodes[elm.node[k]].x>>]]

\* Element.get_coordination: what the call raises ("None": nothing) and the
\* value it leaves in elm.xy. nodes_dict[node_idx] raises KeyError at the
\* first absent id, before self.xy is assigned; otherwise xy is the (x, y)
\* of every node of elm.node, in that order.
get_coordination(elm, nodes) ==
    IF \E k \in 1..Len(elm.node) : elm.node[k] \notin DOMAIN nodes
    THEN [exc |-> "KeyError", xy |-> elm.xy]
    ELSE [exc |-> "None",
          xy |-> [k \in 1..Len(elm.node) |->
                    <<nodes[elm.node[k]].x, nodes[elm.node[k]].y>>]]

\* dict with key k removed / with key k bound to v.
DictDel(d, k) == [q \in (DOMAIN d) \ {k} |-> d[q]]
DictPut(d, k, v) == [q \in (DOMAIN d) \cup {k} |-> IF q = k THEN v ELSE d[q]]
EmptyDict == [q \in {} |-> 0]

\* ---------------------------------------------------------------- state
VARIABLES
    pc,            \* where the program is
    err,           \* the exception that ended it, "None" if none
    length, height, mesh_size, thickness,   \* create_mesh's arguments
    num_mesh_len, num_mesh_hei,             \* column / row counts
    X, Y,          \* the ravelled meshgrid
    nodes_dict,    \* create_mesh's node table
    i, j,          \* loop positions (next one to run)
    node_idx, elem_idx,
    elems,         \* the Element objects (shared by create_mesh's list and Mesh.elements)
    self_nodes,    \* Mesh.nodes
    e,             \* get_element_coord: next element to resolve
    mesh           \* "None" until Mesh(...) has returned, then "Mesh"

vars == <<pc, err, length, height, mesh_size, thickness, num_mesh_len,
          num_mesh_hei, X, Y, nodes_dict, i, j, node_idx, elem_idx, elems,
          self_nodes, e, mesh>>

args == <<length, height, mesh_size, thickness>>
meshVars == <<self_nodes, e, mesh>>

Init ==
    /\ pc = "start"
    /\ err = "None"
    /\ length \in Dims
    /\ height \in Dims
    /\ mesh_size \in Dims
    /\ thickness \in Thicknesses
    /\ num_mesh_len = 0
    /\ num_mesh_hei = 0
    /\ X = << >>
    /\ Y = << >>
    /\ nodes_dict = EmptyDict
    /\ i = 0
    /\ j = 0
    /\ node_idx = 0
    /\ elem_idx = 0
    /\ elems = << >>
    /\ self_nodes = EmptyDict
    /\ e = 0
    /\ mesh = "None"

\* ------------------------------------------------------------ create_mesh
\* length / mesh_size with mesh_size = 0.
DivideByZero ==
    /\ pc = "start"
    /\ mesh_size = 0
    /\ pc' = "error"
    /\ err' = "ZeroDivisionError"
    /\ UNCHANGED <<args, num_mesh_len, num_mesh_hei, X, Y, nodes_dict, i, j,
                   node_idx, elem_idx, elems, meshVars>>

\* The column and row counts, each clamped from 0 to 1.
ComputeCounts ==
    /\ pc = "start"
    /\ mesh_size # 0
    /\ num_mesh_len' = Clamp(int_div(length, mesh_size))
    /\ num_mesh_hei' = Clamp(int_div(height, mesh_size))
    /\ pc' = "linspace"
    /\ UNCHANGED <<err, args, X, Y, nodes_dict, i, j, node_idx, elem_idx,
                   elems, meshVars>>

\* np.linspace refuses a negative number of samples.
LinspaceError ==
    /\ pc = "linspace"
    /\ (num_mesh_len + 1 < 0 \/ num_mesh_hei + 1 < 0)
    /\ pc' = "error"
    /\ err' = "ValueError"
    /\ UNCHANGED <<args, num_mesh_len, num_mesh_hei, X, Y, nodes_dict, i, j,
                   node_idx, elem_idx, elems, meshVars>>

\* x, y = linspace; X, Y = meshgrid(x, y), ravelled.
Lattice ==
    /\ pc = "linspace"
    /\ num_mesh_len + 1 >= 0
    /\ num_mesh_hei + 1 >= 0
    /\ LET x == linspace(0, length, num_mesh_len + 1)
           y == linspace(0, height, num_mesh_hei + 1)
       IN  /\ X' = ravel(meshgrid_X(x, y))
           /\ Y' = ravel(meshgrid_Y(x, y))
    /\ nodes_dict' = EmptyDict
    /\ i' = 0
    /\ pc' = "nodes"
    /\ UNCHANGED <<err, args, num_mesh_len, num_mesh_hei, j, node_idx,
                   elem_idx, elems, meshVars>>

\* for i, coord in enumerate(zip(X, Y)): nodes_dict[i] = Node(i, ...)
AddNode ==
    /\ pc = "nodes"
    /\ i < Len(zip(X, Y))
    /\ LET coord == zip(X, Y)[i + 1]
       IN  nodes_dict' = DictPut(nodes_dict, i, Node(i, coord[1], coord[2]))
    /\ i' = i + 1
    /\ UNCHANGED <<pc, err, args, num_mesh_len, num_mesh_hei, X, Y, j,
                   node_idx, elem_idx, elems, meshVars>>

\* The node loop is over: node_idx = 0, elem_idx = 0, elems = [].
NodesDone ==
    /\ pc = "nodes"
    /\ i >= Len(zip(X, Y))
    /\ node_idx' = 0
    /\ elem_idx' = 0
    /\ elems' = << >>
    /\ i' = 0
    /\ j' = 0
    /\ pc' = "elements"
    /\ UNCHANGED <<err, args, num_mesh_len, num_mesh_hei, X, Y, nodes_dict,
                   meshVars>>

\* Position (i, j) -> the next position of the two nested for loops.
Advance ==
    IF j + 1 < num_mesh_len + 1
    THEN i' = i /\ j' = j + 1
    ELSE i' = i + 1 /\ j' = 0

\* A row whose inner range(num_mesh_len + 1) is empty.
EmptyRow ==
    /\ pc = "elements"
    /\ RowsLeft(i, num_mesh_hei)
    /\ num_mesh_len + 1 <= 0
    /\ i' = i + 1
    /\ UNCHANGED <<pc, err, args, num_mesh_len, num_mesh_hei, X, Y,
                   nodes_dict, j, node_idx, elem_idx, elems, meshVars>>

\* The rightmost node of a row: no element, node_idx += 1.
SkipPosition ==
    /\ pc = "elements"
    /\ RowsLeft(i, num_mesh_hei)
    /\ num_mesh_len + 1 > 0
    /\ IsRowEnd(node_idx, num_mesh_len)
    /\ node_idx' = node_idx + 1
    /\ Advance
    /\ UNCHANGED <<pc, err, args, num_mesh_len, num_mesh_hei, X, Y,
                   nodes_dict, elem_idx, elems, meshVars>>

\* Any other position: one element, node_idx += 1, elem_idx += 1.
CreateElement ==
    /\ pc = "elements"
    /\ RowsLeft(i, num_mesh_hei)
    /\ num_mesh_len + 1 > 0
    /\ ~IsRowEnd(node_idx, num_mesh_len)
    /\ elems' = Append(elems,
                  Element(elem_idx, node_idxs(node_idx, num_mesh_len), thickness))
    /\ node_idx' = node_idx + 1
    /\ elem_idx' = elem_idx + 1
    /\ Advance
    /\ UNCHANGED <<pc, err, args, num_mesh_len, num_mesh_hei, X, Y,
                   nodes_dict, meshVars>>

\* return nodes_dict, elems
Return ==
    /\ pc = "elements"
    /\ ~RowsLeft(i, num_mesh_hei)
    /\ pc' = "returned"
    /\ UNCHANGED <<err, args, num_mesh_len, num_mesh_hei, X, Y, nodes_dict,
                   i, j, node_idx, elem_idx, elems, meshVars>>

\* ------------------------------------------------------------------ Mesh
\* The node tables a caller hands to Mesh(nodes_dict, elements): the one
\* create_mesh returned, or that one with a key missing.
Tables == {nodes_dict} \cup {DictDel(nodes_dict, k) : k \in DOMAIN nodes_dict}

\* Mesh.__init__ up to the call of get_element_coord.
MeshInit ==
    /\ pc = "returned"
    /\ \E nd \in Tables : self_nodes' = nd
    /\ e' = 0
    /\ pc' = "get_element_coord"
    /\ UNCHANGED <<err, args, num_mesh_len, num_mesh_hei, X, Y, nodes_dict,
                   i, j, node_idx, elem_idx, elems, mesh>>

\* elm.get_coordination(self.nodes) for the next element, all ids found.
ResolveElement ==
    /\ pc = "get_element_coord"
    /\ e < Len(elems)
    /\ get_coordination(elems[e + 1], self_nodes).exc = "None"
    /\ elems' = [elems EXCEPT ![e + 1].xy =
                    get_coordination(elems[e + 1], self_nodes).xy]
    /\ e' = e + 1
    /\ UNCHANGED <<pc, err, args, num_mesh_len, num_mesh_hei, X, Y,
                   nodes_dict, i, j, node_idx, elem_idx, self_nodes, mesh>>

\* The lookup of an absent id raises out of Mesh.__init__.
ResolveFails ==
    /\ pc = "get_element_coord"
    /\ e < Len(elems)
    /\ get_coordination(elems[e + 1], self_nodes).exc # "None"
    /\ pc' = "error"
    /\ err' = get_coordination(elems[e + 1], self_nodes).exc
    /\ UNCHANGED <<args, num_mesh_len, num_mesh_hei, X, Y, nodes_dict, i, j,
                   node_idx, elem_idx, elems, meshVars>>

\* Mesh.__init__ returns: mesh = Mesh(nodes_dict, elems).
MeshDone ==
    /\ pc = "get_element_coord"
    /\ e >= Len(elems)
    /\ mesh' = "Mesh"
    /\ pc' = "done"
    /\ UNCHANGED <<err, args, num_mesh_len, num_mesh_hei, X, Y, nodes_dict,
                   i, j, node_idx, elem_idx, elems, self_nodes, e>>

Next ==
    \/ DivideByZero
    \/ ComputeCounts
    \/ LinspaceError
    \/ Lattice
    \/ AddNode
    \/ NodesDone
    \/ EmptyRow
    \/ SkipPosition
    \/ CreateElement
    \/ Return
    \/ MeshInit
    \/ ResolveElement
    \/ ResolveFails
    \/ MeshDone

Spec == Init /\ [][Next]_vars

\* ======================================================================
\* Properties
\* ======================================================================
AllPositive == length > 0 /\ height > 0 /\ mesh_size > 0
NonPositive == length <= 0 \/ height <= 0 \/ mesh_size <= 0 \/ thickness <= 0

Max(a, b) == IF a > b THEN a ELSE b

\* max(1, floor(length / mesh_size)) and max(1, floor(height / mesh_size)),
\* read only where mesh_size > 0.
ExpCols == Max(1, length \div mesh_size)
ExpRows == Max(1, height \div mesh_size)
ExpCount == (ExpCols + 1) * (ExpRows + 1)

\* The Mesh constructor has taken over (self.nodes is assigned).
InMesh ==
    \/ pc \in {"get_element_coord", "done"}
    \/ (pc = "error" /\ err = "KeyError")

\* create_mesh has returned.
Returned == pc = "returned" \/ InMesh

\* The node loop of create_mesh is over.
Built == pc = "elements" \/ Returned

\* Exact arithmetic on the rationals of the model.
RatLess(a, b) == a.n * b.d < b.n * a.d
RatMul(a, b) == Rat(a.n * b.n, a.d * b.d)
RatSub(a, b) == Rat(a.n * b.d - b.n * a.d, a.d * b.d)
RatAdd(a, b) == Rat(a.n * b.d + b.n * a.d, a.d * b.d)
RatPositive(a) == a.n > 0

\* x1*y2 - x2*y1 for the edge from p to q.
Cross(p, q) == RatSub(RatMul(p[1], q[2]), RatMul(q[1], p[2]))

\* Twice the signed (shoelace) area of the quadrilateral xy[1..4].
SignedArea2(xy) ==
    RatAdd(RatAdd(Cross(xy[1], xy[2]), Cross(xy[2], xy[3])),
           RatAdd(Cross(xy[3], xy[4]), Cross(xy[4], xy[1])))

\* ------------------------------------------------------------------ C1
\* C1: for positive length, height and mesh_size the node table has
\* (max(1, floor(length/mesh_size)) + 1) * (max(1, floor(height/mesh_size)) + 1)
\* entries, its keys are exactly 0 .. count-1, and the Node under key k has
\* id k.
C1_NodeCount ==
    (AllPositive /\ Built) =>
        /\ Cardinality(DOMAIN nodes_dict) = ExpCount
        /\ DOMAIN nodes_dict = 0..(ExpCount - 1)
        /\ \A k \in DOMAIN nodes_dict : nodes_dict[k].id = k

\* A returned mesh whose column count was clamped from 0 to 1 and that has
\* two rows of elements or more.
C1_Witness ==
    /\ pc = "returned"
    /\ AllPositive
    /\ length < mesh_size
    /\ height >= 2 * mesh_size
    /\ Cardinality(DOMAIN nodes_dict) = 2 * ((height \div mesh_size) + 1)

\* ------------------------------------------------------------------ C2
\* C2: for positive inputs create_mesh returns exactly num_cols * num_rows
\* elements, the element at list position k has id k, and throughout the
\* traversal the next element id is the number of elements created so far
\* (a skipped end-of-row position consumes no id).
C2_ElementCount ==
    AllPositive =>
        /\ \A k \in 1..Len(elems) : elems[k].id = k - 1
        /\ (pc = "elements" \/ Returned) => elem_idx = Len(elems)
        /\ Returned => Len(elems) = ExpCols * ExpRows

\* A returned mesh of at least two rows and two columns: end-of-row
\* positions were skipped between elements.
C2_Witness ==
    /\ pc = "returned"
    /\ AllPositive
    /\ num_mesh_len >= 2
    /\ num_mesh_hei >= 2
    /\ Len(elems) = num_mesh_len * num_mesh_hei
    /\ node_idx > elem_idx

\* ------------------------------------------------------------------ C3
\* C3: every element has 4 pairwise distinct node ids, each in
\* 0 .. (num_cols+1)*(num_rows+1)-1 and each a key of the node table of the
\* same call (the topmost element row included).
C3_NodeIdsValid ==
    \A k \in 1..Len(elems) :
        LET nd == elems[k].node
        IN  /\ Len(nd) = 4
            /\ \A a, b \in 1..Len(nd) : a # b => nd[a] # nd[b]
            /\ \A a \in 1..Len(nd) :
                /\ nd[a] \in 0..((num_mesh_len + 1) * (num_mesh_hei + 1) - 1)
                /\ nd[a] \in DOMAIN nodes_dict

\* A returned mesh of two element rows or more whose last element touches
\* the last node of the table.
C3_Witness ==
    /\ pc = "returned"
    /\ num_mesh_hei >= 2
    /\ Len(elems) >= 2
    /\ elems[Len(elems)].node[3] = (num_mesh_len + 1) * (num_mesh_hei + 1) - 1

\* ------------------------------------------------------------------ C4
\* The corner coordinates of element el, resolved against the node table
\* create_mesh returned.
Resolved(el) == get_coordination(el, nodes_dict)

\* xy lists the corners of an axis-parallel rectangle as bottom-left,
\* bottom-right, top-right, top-left.
CounterClockwiseFromBottomLeft(xy) ==
    /\ xy[1][2] = xy[2][2] /\ RatLess(xy[1][1], xy[2][1])
    /\ xy[2][1] = xy[3][1] /\ RatLess(xy[2][2], xy[3][2])
    /\ xy[3][2] = xy[4][2] /\ RatLess(xy[4][1], xy[3][1])
    /\ xy[4][1] = xy[1][1] /\ RatLess(xy[1][2], xy[4][2])

\* xy is a counter-clockwise quadrilateral: 4 corners, positive signed area.
PositivelyWound(xy) ==
    /\ Len(xy) = 4
    /\ RatPositive(SignedArea2(xy))
    /\ CounterClockwiseFromBottomLeft(xy)

\* C4: for positive inputs, every element's corners, resolved in the
\* declared order against the returned node table, have a strictly positive
\* signed (shoelace) area and run bottom-left, bottom-right, top-right,
\* top-left; so do the coordinates stored in xy once the Mesh is built.
C4_PositiveArea ==
    /\ (AllPositive /\ pc = "returned") =>
        \A k \in 1..Len(elems) :
            LET r == Resolved(elems[k])
            IN  r.exc = "None" /\ PositivelyWound(r.xy)
    /\ (AllPositive /\ pc = "done") =>
        \A k \in 1..Len(elems) : PositivelyWound(elems[k].xy)

\* A constructed mesh with positive inputs, several elements and a corner
\* coordinate that is not an integer.
C4_Witness ==
    /\ pc = "done"
    /\ AllPositive
    /\ Len(elems) >= 4
    /\ \E k \in 1..Len(elems) : \E a \in 1..4 : elems[k].xy[a][1].d > 1
    /\ \A k \in 1..Len(elems) : RatPositive(SignedArea2(elems[k].xy))

\* ------------------------------------------------------------------ C5
\* C5: for positive inputs node k sits at column k mod (num_cols+1) and row
\* k div (num_cols+1): x = (k mod (num_cols+1)) * length / num_cols and
\* y = (k div (num_cols+1)) * height / num_rows; node 0 is at (0, 0) and the
\* last node at (length, height).
C5_RowMajor ==
    AllPositive =>
        /\ \A k \in DOMAIN nodes_dict :
            /\ nodes_dict[k].x = Rat((k % (ExpCols + 1)) * length, ExpCols)
            /\ nodes_dict[k].y = Rat((k \div (ExpCols + 1)) * height, ExpRows)
        /\ Built =>
            /\ 0 \in DOMAIN nodes_dict
            /\ (ExpCount - 1) \in DOMAIN nodes_dict
            /\ nodes_dict[0].x = Rat(0, 1)
            /\ nodes_dict[0].y = Rat(0, 1)
            /\ nodes_dict[ExpCount - 1].x = Rat(length, 1)
            /\ nodes_dict[ExpCount - 1].y = Rat(height, 1)

\* A returned lattice with more columns than rows, both at least 2.
C5_Witness ==
    /\ pc = "returned"
    /\ AllPositive
    /\ num_mesh_hei >= 2
    /\ num_mesh_len > num_mesh_hei
    /\ nodes_dict[num_mesh_len + 1].x = Rat(0, 1)
    /\ nodes_dict[num_mesh_len + 1].y = Rat(height, num_mesh_hei)

\* ------------------------------------------------------------------ C6
\* C6: a non-positive length, height, mesh_size or thickness is rejected
\* before any lattice is generated and is never clamped to a mesh: for such
\* an input no lattice, node or element ever exists and create_mesh does
\* not return.
C6_RejectsNonPositive ==
    NonPositive =>
        /\ X = << >> /\ Y = << >>
        /\ nodes_dict = EmptyDict
        /\ elems = << >>
        /\ pc \notin {"nodes", "elements"}
        /\ ~Returned

\* ------------------------------------------------------------------ C7
Dangling(el) == \E k \in 1..Len(el.node) : el.node[k] \notin DOMAIN self_nodes

\* List position of the first element with an id absent from Mesh.nodes.
FirstDangling ==
    CHOOSE k \in 1..Len(elems) :
        /\ Dangling(elems[k])
        /\ \A q \in 1..(k - 1) : ~Dangling(elems[q])

\* C7: when an element references a node id absent from the table, Mesh
\* construction never completes and binds no Mesh: it ends with a KeyError
\* at the first such element, which keeps xy unset; and a KeyError arises
\* only that way.
C7_LookupError ==
    /\ (InMesh /\ \E k \in 1..Len(elems) : Dangling(elems[k])) =>
        /\ pc # "done"
        /\ mesh = "None"
        /\ e < FirstDangling
        /\ pc = "error" =>
            /\ err = "KeyError"
            /\ e = FirstDangling - 1
            /\ elems[FirstDangling].xy = None
    /\ (pc = "error" /\ err = "KeyError") =>
        \E k \in 1..Len(elems) : Dangling(elems[k])

\* Construction failed at an element after the first: earlier elements were
\* resolved, no Mesh is bound.
C7_Witness ==
    /\ pc = "error"
    /\ err = "KeyError"
    /\ e >= 1
    /\ mesh = "None"
    /\ Dangling(elems[e + 1])

C9_Cursor ==
    (AllPositive /\ (pc = "elements" \/ Returned)) =>
        LET w == ExpCols + 1
        IN  /\ node_idx = i * w + j
            /\ j \in 0..ExpCols
            /\ i \in 0..ExpRows
            /\ (pc = "elements" /\ i < ExpRows) =>
                    (IsRowEnd(node_idx, ExpCols) <=> j = ExpCols)
            /\ (pc = "elements" /\ j < ExpCols) => Len(elems) = i * ExpCols + j
            /\ \A k \in 1..Len(elems) :
                LET nd == elems[k].node
                    r == (k - 1) \div ExpCols
                    c == (k - 1) % ExpCols
                IN  /\ Len(nd) = 4
                    /\ nd[1] = r * w + c
                    /\ nd[2] = r * w + c + 1
                    /\ nd[4] = (r + 1) * w + c
                    /\ nd[3] = (r + 1) * w + c + 1
                    /\ c + 1 < w
            /\ Returned => (i = ExpRows /\ j = 0 /\ node_idx = ExpRows * w)

\* The traversal stands at the end-of-row position of its second row.
C9_Witness ==
    /\ pc = "elements"
    /\ AllPositive
    /\ i = 1
    /\ num_mesh_len >= 2
    /\ j = num_mesh_len
    /\ IsRowEnd(node_idx, num_mesh_len)
    /\ Len(elems) = 2 * num_mesh_len

\* ----------------------------------------------------------------- C10
\* Elements that reference node n / that have n as bottom-left corner.
Referencing(n) ==
    {k \in 1..Len(elems) : \E a \in 1..Len(elems[k].node) : elems[k].node[a] = n}
BottomLeftOf(n) == {k \in 1..Len(elems) : elems[k].node[1] = n}

\* C10: for positive inputs the elements create_mesh returns tile the lattice once: a
\* node is the bottom-left corner of exactly one element if it is neither
\* in the rightmost column nor in the top row, and of none otherwise; no
\* two elements have the same node list; every node of the table is
\* referenced by at least one and at most four elements.
C10_Tiling ==
    (AllPositive /\ pc = "returned") =>
        /\ \A n \in DOMAIN nodes_dict :
            /\ Cardinality(BottomLeftOf(n)) =
                 IF /\ n % (ExpCols + 1) < ExpCols
                    /\ n \div (ExpCols + 1) < ExpRows
                 THEN 1 ELSE 0
            /\ Cardinality(Referencing(n)) \in 1..4
        /\ \A k \in 1..Len(elems) : elems[k].node[1] \in DOMAIN nodes_dict
        /\ \A k, q \in 1..Len(elems) :
            elems[k].node = elems[q].node => k = q

\* A returned mesh with an interior node shared by four elements.
C10_Witness ==
    /\ pc = "returned"
    /\ AllPositive
    /\ \E n \in DOMAIN nodes_dict : Cardinality(Referencing(n)) = 4
    /\ \E n \in DOMAIN nodes_dict : Cardinality(Referencing(n)) = 1

====
